---- MODULE Spec2Model ----
(***************************************************************************)
(* Model of healthcare-analytics-ip: main.py (main) and ipinstance.py      *)
(* (data_parse, IPInstance.__init__, build_constraints, solve).            *)
(*                                                                         *)
(* Indices are 1-based here (tests 1..numTests, diseases 1..numDiseases);  *)
(* the Python code is 0-based, so "test 0" of the code is test 1 below.    *)
(*                                                                         *)
(* Values of model variables and of the objective are kept as integers in  *)
(* units of 1/Den: the value v of a docplex variable is stored as v*Den,   *)
(* so 1 is Den, 0.5 is Den/2, and the constant 2 of line 76 is 2*Den.      *)
(***************************************************************************)
EXTENDS Integers, Sequences, FiniteSets

VARIABLES file, pc, numTests, numDiseases, costOfTest, A, model, solution, result, sol_dict

vars == <<file, pc, numTests, numDiseases, costOfTest, A, model, solution, result, sol_dict>>

(* ---------------------------- bounds ----------------------------------- *)

\* Largest number of tests and diseases of the generated instance files.
MaxTests == 2
MaxDiseases == 2
\* Costs of the generated instance files are 1..MaxCost.
MaxCost == 2
\* Resolution of the values a relaxed (continuous) variable takes: k/Den.
\* With one disease pair every vertex of the relaxed model is half-integral
\* (the only non-unit coefficient is the 2 of the xor gadget), so Den = 2
\* gives the exact optimum of the relaxation there.
Den == 2
\* Arbitrary (possibly malformed) files: longest line and number of rows.
MaxTokens == 3
MaxRows == 2

(* ---------------------------- helpers ---------------------------------- *)

RECURSIVE SumSeq(_)
SumSeq(s) == IF s = <<>> THEN 0 ELSE Head(s) + SumSeq(Tail(s))

Min(S) == CHOOSE x \in S : \A y \in S : x <= y

(* ------------------------- data_parse ---------------------------------- *)

\* Tokens of a file: decimal literals, and "x" for anything non-numeric.
Digits == <<"0", "1", "2", "3", "4", "5", "6", "7", "8", "9">>

\* int(tok) succeeds
IsInt(tok) == \E d \in 1..Len(Digits) : Digits[d] = tok
\* int(tok)
ParseInt(tok) == (CHOOSE d \in 1..Len(Digits) : Digits[d] = tok) - 1
\* float(tok) succeeds / float(tok): the numeric tokens here are integer literals
IsFloat(tok) == IsInt(tok)
ParseFloat(tok) == ParseInt(tok)

\* fl.readline().strip().split() of matrix line i: an absent line reads as ''.
RowTokens(f, i) == IF i <= Len(f.rows) THEN f.rows[i] ELSE <<>>

\* A[i, :] = np.array([...]) succeeds: every token converts, and the array
\* has numDiseases entries or a single entry (which numpy broadcasts).
RowAssignable(row, m) ==
    /\ \A j \in 1..Len(row) : IsInt(row[j])
    /\ Len(row) = m \/ Len(row) = 1

\* The row stored by A[i, :] = np.array([...]).
RowAssigned(row, m) ==
    [j \in 1..m |-> IF Len(row) = m THEN ParseInt(row[j]) ELSE ParseInt(row[1])]

\* No statement of the try block raises.
ParseSucceeds(f) ==
    /\ IsInt(f.numTests)
    /\ IsInt(f.numDiseases)
    /\ \A c \in 1..Len(f.costs) : IsFloat(f.costs[c])
    /\ \A i \in 1..ParseInt(f.numTests) :
          RowAssignable(RowTokens(f, i), ParseInt(f.numDiseases))

\* The tuple data_parse returns.
data_parse(f) ==
    LET n == ParseInt(f.numTests)
        m == ParseInt(f.numDiseases)
    IN  [numTests    |-> n,
         numDiseases |-> m,
         costOfTest  |-> [c \in 1..Len(f.costs) |-> ParseFloat(f.costs[c])],
         A           |-> [i \in 1..n |-> RowAssigned(RowTokens(f, i), m)]]

(* ---------------------- build_constraints ------------------------------ *)

\* The disease pairs of the double loop, lines 57-58.
Pairs(m) == {p \in (1..m) \X (1..m) : p[1] < p[2]}

\* The tests that get an auxiliary xor variable for pair (i, j), line 69.
XorTests(a, n, i, j) == {k \in 1..n : a[k][i] # 0 /\ a[k][j] # 0}

\* The model the constructor leaves in self.model.
BuildModel(a, n, m, relax_model) ==
    [tests   |-> 1..n,
     pairs   |-> Pairs(m),
     xors    |-> [p \in Pairs(m) |-> XorTests(a, n, p[1], p[2])],
     vartype |-> IF relax_model THEN "continuous" ELSE "binary"]

NoModel == [tests |-> {}, pairs |-> {}, xors |-> <<>>, vartype |-> "none"]

\* Values a variable of the model takes: 0 or 1 when binary, [0, 1] when
\* relaxed by LinearRelaxer.make_relaxed_model.
Domain(vartype) == IF vartype = "continuous" THEN 0..Den ELSE {0, Den}

\* XorGadget with second_disease left out of the last inequality.
XorGadgetLoose(xor_var, first_disease, second_disease) ==
    /\ xor_var <= first_disease + second_disease
    /\ xor_var >= first_disease - second_disease
    /\ xor_var >= -first_disease + second_disease
    /\ xor_var <= 2 * Den - first_disease

\* The four xor inequalities, lines 73-76.
XorGadget(xor_var, first_disease, second_disease) ==
    /\ xor_var <= first_disease + second_disease
    /\ xor_var >= first_disease - second_disease
    /\ xor_var >= -first_disease + second_disease
    /\ xor_var <= 2 * Den - first_disease - second_disease

\* The entry test k appends to xor_vars, lines 71, 80, 84 (0: none).
XorTerm(T, xor_var, i, j, k) ==
    LET first_disease == T[k] * A[k][i]
        second_disease == T[k] * A[k][j]
    IN  IF A[k][i] # 0 /\ A[k][j] # 0 THEN xor_var[k]
        ELSE IF A[k][i] = 0 /\ A[k][j] # 0 THEN second_disease
        ELSE IF A[k][i] # 0 /\ A[k][j] = 0 THEN first_disease
        ELSE 0

\* TestConstraints with the inequality of line 81 and of line 85 turned round.
TestConstraintsFlipped(T, or_var, xor_var, i, j, k) ==
    LET first_disease == T[k] * A[k][i]
        second_disease == T[k] * A[k][j]
    IN  IF A[k][i] # 0 /\ A[k][j] # 0
        THEN /\ XorGadget(xor_var[k], first_disease, second_disease)
             /\ or_var >= xor_var[k]
        ELSE IF A[k][i] = 0 /\ A[k][j] # 0 THEN or_var <= second_disease
        ELSE IF A[k][i] # 0 /\ A[k][j] = 0 THEN or_var <= first_disease
        ELSE TRUE

\* The constraints test k adds for pair (i, j), lines 64-86.
TestConstraints(T, or_var, xor_var, i, j, k) ==
    LET first_disease == T[k] * A[k][i]
        second_disease == T[k] * A[k][j]
    IN  IF A[k][i] # 0 /\ A[k][j] # 0
        THEN /\ XorGadget(xor_var[k], first_disease, second_disease)
             /\ or_var >= xor_var[k]
        ELSE IF A[k][i] = 0 /\ A[k][j] # 0 THEN or_var >= second_disease
        ELSE IF A[k][i] # 0 /\ A[k][j] = 0 THEN or_var >= first_disease
        ELSE TRUE

\* All constraints of pair (i, j), lines 60-90.
PairConstraints(T, or_var, xor_var, i, j) ==
    /\ or_var >= Den
    /\ \A k \in 1..numTests : TestConstraints(T, or_var, xor_var, i, j, k)
    /\ or_var <= SumSeq([k \in 1..numTests |-> XorTerm(T, xor_var, i, j, k)])

\* The objective, line 92.
Cost(T) == SumSeq([k \in 1..numTests |-> costOfTest[k] * T[k]])

(* ------------------------------ solve ---------------------------------- *)

\* Some value of the auxiliary variables of pair p satisfies its constraints
\* (or_var >= 1 is tested first: it leaves a single value of or_var).
PairSatisfiable(T, mdl, p) ==
    \E or_var \in Domain(mdl.vartype) :
        /\ or_var >= Den
        /\ \E xor_var \in [mdl.xors[p] -> Domain(mdl.vartype)] :
               PairConstraints(T, or_var, xor_var, p[1], p[2])

\* The values of T1..Tn that extend to a feasible point of the model
\* (points is the explicit set of all values of T1..Tn).
FeasibleSet(mdl) ==
    LET points == {T : T \in [mdl.tests -> Domain(mdl.vartype)]}
    IN  {T \in points : \A p \in mdl.pairs : PairSatisfiable(T, mdl, p)}

\* The least objective value over the feasible set F (what CPLEX computes).
Optimum(F) == CHOOSE c \in {Cost(T) : T \in F} : \A T \in F : c <= Cost(T)

\* The optimal solutions among the feasible set F.
OptimalSet(F) == {T \in F : \A U \in F : Cost(T) <= Cost(U)}

(* --------------------------- the program ------------------------------- *)

NoDict == [Result |-> -1, Solution |-> "none"]

\* A well-formed file holding the instance (n, m, cost, a).
FileOf(n, m, cost, a) ==
    [numTests    |-> Digits[n + 1],
     numDiseases |-> Digits[m + 1],
     costs       |-> [k \in 1..n |-> Digits[cost[k] + 1]],
     rows        |-> [k \in 1..n |-> [j \in 1..m |-> Digits[a[k][j] + 1]]]]

\* file is a well-formed file of an instance within the bounds.
IsInstanceFile(f) ==
    \E n \in 1..MaxTests, m \in 1..MaxDiseases :
        \E cost \in [1..n -> 1..MaxCost], a \in [1..n -> [1..m -> {0, 1}]] :
            f = FileOf(n, m, cost, a)

\* The example instance: 3 tests, 2 diseases, cost 1 2 3, rows 1 0 / 1 1 / 0 1.
ExampleFile ==
    [numTests    |-> "3",
     numDiseases |-> "2",
     costs       |-> <<"1", "2", "3">>,
     rows        |-> << <<"1", "0">>, <<"1", "1">>, <<"0", "1">> >>]

Start ==
    /\ pc = "start"
    /\ numTests = 0
    /\ numDiseases = 0
    /\ costOfTest = <<>>
    /\ A = <<>>
    /\ model = NoModel
    /\ solution = <<>>
    /\ result = -1
    /\ sol_dict = NoDict

\* main is started on a well-formed instance file.
Init ==
    /\ IsInstanceFile(file) \/ file = ExampleFile
    /\ Start

\* solver = IPInstance(filepath): data_parse, then build_constraints(True, True).
\* A failed parse ends the process (exit(1)); a cost line shorter than
\* numTests raises IndexError at line 92.
Construct ==
    /\ pc = "start"
    /\ IF ~ParseSucceeds(file)
       THEN /\ pc' = "exit"
            /\ UNCHANGED <<numTests, numDiseases, costOfTest, A, model>>
       ELSE LET d == data_parse(file) IN
            /\ numTests' = d.numTests
            /\ numDiseases' = d.numDiseases
            /\ costOfTest' = d.costOfTest
            /\ A' = d.A
            /\ IF Len(d.costOfTest) < d.numTests
               THEN /\ pc' = "IndexError"
                    /\ model' = NoModel
               ELSE /\ pc' = "constructed"
                    /\ model' = BuildModel(d.A, d.numTests, d.numDiseases, TRUE)
    /\ UNCHANGED <<file, solution, result, sol_dict>>

\* result = solver.solve(): self.model.solve() leaves one optimal solution
\* (which one, among several, is the solver's choice), and objective_value is
\* its objective; with no solution, objective_value raises DOcplexException.
Solve ==
    /\ pc = "constructed"
    /\ \E F \in {FeasibleSet(model)} :
          IF F = {}
          THEN /\ pc' = "DOcplexException"
               /\ UNCHANGED <<solution, result>>
          ELSE /\ pc' = "solved"
               /\ solution' \in OptimalSet(F)
               /\ result' = Optimum(F)
    /\ UNCHANGED <<file, numTests, numDiseases, costOfTest, A, model, sol_dict>>

\* main, lines 18-26: the dictionary printed (Instance and Time are left out).
Report ==
    /\ pc = "solved"
    /\ pc' = "reported"
    /\ sol_dict' = [Result |-> result, Solution |-> "OPT"]
    /\ UNCHANGED <<file, numTests, numDiseases, costOfTest, A, model, solution, result>>

Next == Construct \/ Solve \/ Report

Spec == Init /\ [][Next]_vars

(* --------------------- arbitrary instance files ------------------------ *)

CountTokens == {"1", "2", "x"}
CostTokens == {"1", "x"}
CellTokens == {"0", "1", "x"}

\* The lines of at most MaxTokens tokens.
Lines(tokens) == UNION {[1..len -> tokens] : len \in 0..MaxTokens}

\* main is started on any file of the four-part layout, malformed or not.
InitAnyFile ==
    /\ \E n \in CountTokens, m \in CountTokens, costs \in Lines(CostTokens) :
         \E count \in 0..MaxRows :
           \E rows \in [1..count -> Lines(CellTokens)] :
              file = [numTests |-> n, numDiseases |-> m, costs |-> costs, rows |-> rows]
    /\ Start

SpecParse == InitAnyFile /\ [][Next]_vars

(* ------------------------- the properties ------------------------------ *)

\* diff(i, j): the tests whose response differs between the two diseases.
Diff(p) == {k \in 1..numTests : A[k][p[1]] # A[k][p[2]]}

\* Every disease pair differs on at least one test.
Distinguishable == \A p \in Pairs(numDiseases) : Diff(p) # {}

\* The set S of tests distinguishes every disease pair.
Covers(S) == \A p \in Pairs(numDiseases) : S \cap Diff(p) # {}

RECURSIVE SetCost(_)
SetCost(S) ==
    IF S = {} THEN 0
    ELSE LET k == CHOOSE t \in S : TRUE IN costOfTest[k] + SetCost(S \ {k})

\* The minimum found by enumerating every subset of tests.
BruteForce == Min({SetCost(S) : S \in {R \in SUBSET (1..numTests) : Covers(R)}})

\* The tests a solution selects: those whose variable is 1.
Selected(T) == {k \in 1..numTests : T[k] = Den}

\* solve() has returned a value.
Returned == pc \in {"solved", "reported"}

\* C1: on a valid instance the value solve() returns is the minimum cost of
\* a set of tests that distinguishes every disease pair.
C1_MatchesBruteForce == (Returned /\ Distinguishable) => result = Den * BruteForce

\* solve() has returned a value for an instance whose pairs all differ, and
\* the model solved has a single optimal solution, so that the solution does
\* not depend on how the solver breaks ties.
ReturnedUnique ==
    /\ Returned
    /\ Distinguishable
    /\ OptimalSet(FeasibleSet(model)) = {solution}

\* C2: the tests whose variable is 1 in the returned solution distinguish
\* every disease pair (stated for the instances whose pairs all differ, the
\* only ones where any selection can, and whose optimal solution is unique).
C2_SelectionDistinguishes == ReturnedUnique => Covers(Selected(solution))

\* C3: with two identical disease columns solve() never returns a value.
C3_IdenticalColumnsRejected == ~Distinguishable => ~Returned

\* C4: the tag OPT is printed only with a Result that is the optimum of the
\* integer test-selection problem.
C4_OptOnlyWhenOptimal ==
    (pc = "reported" /\ sol_dict.Solution = "OPT") =>
        (Distinguishable /\ sol_dict.Result = Den * BruteForce)

\* The cardinality formulation: binary T with, for every pair, the sum of
\* T_k over diff(i, j) at least 1.
CardinalityFeasible ==
    {T \in [1..numTests -> {0, 1}] :
        \A p \in Pairs(numDiseases) :
            SumSeq([k \in 1..numTests |-> IF k \in Diff(p) THEN T[k] ELSE 0]) >= 1}

\* Its optimal objective value in units of 1/Den (-1: infeasible).
CardinalityValue ==
    IF CardinalityFeasible = {} THEN -1
    ELSE Den * Min({SumSeq([k \in 1..numTests |-> costOfTest[k] * T[k]]) :
                      T \in CardinalityFeasible})

\* The optimal objective value of the model the constructor built (-1: infeasible).
ModelValue ==
    IF FeasibleSet(model) = {} THEN -1 ELSE Optimum(FeasibleSet(model))

\* C5: the model build_constraints produced has the same optimal objective
\* value as the cardinality formulation of the instance (stated for the
\* instances whose pairs all differ, where both values exist).
C5_SameValueAsCardinality ==
    (pc = "constructed" /\ Distinguishable) => ModelValue = CardinalityValue

\* The file has the declared dimensions and numeric tokens: numTests costs,
\* and numTests matrix rows of numDiseases entries each.
WellFormed(f) ==
    /\ IsInt(f.numTests)
    /\ IsInt(f.numDiseases)
    /\ Len(f.costs) = ParseInt(f.numTests)
    /\ \A c \in 1..Len(f.costs) : IsFloat(f.costs[c])
    /\ Len(f.rows) >= ParseInt(f.numTests)
    /\ \A i \in 1..ParseInt(f.numTests) :
          /\ Len(f.rows[i]) = ParseInt(f.numDiseases)
          /\ \A j \in 1..Len(f.rows[i]) : IsInt(f.rows[i][j])

\* The constructor has returned an IPInstance.
Constructed == pc \in {"constructed", "DOcplexException", "solved", "reported"}

\* C6: a file that is not well-formed fails at load time, so a constructed
\* instance has numTests costs and the numTests x numDiseases matrix of the file.
C6_LoadRejectsMalformed ==
    Constructed =>
        /\ WellFormed(file)
        /\ Len(costOfTest) = numTests
        /\ \A i \in 1..numTests : \A j \in 1..numDiseases :
              A[i][j] = ParseInt(file.rows[i][j])

\* C7: the value returned is the total cost of the tests selected in the
\* solution (stated for the instances whose pairs all differ and whose
\* optimal solution is unique).
C7_ObjectiveIsSelectionCost ==
    ReturnedUnique => result = Den * SetCost(Selected(solution))

\* C8: on the example instance solve() returns 1.0 and selecting test 0 alone
\* is the only optimal solution of the model solved.
C8_ExampleUniqueOptimum ==
    (file = ExampleFile /\ pc = "solved") =>
        /\ result = Den
        /\ OptimalSet(FeasibleSet(model)) = {<<Den, 0, 0>>}

\* C9: when some set of tests distinguishes every pair, the value solve()
\* returns is at most the optimum of the integer test-selection problem.
C9_RelaxationIsLowerBound == (Returned /\ Distinguishable) => result <= Den * BruteForce

\* The relaxation is strictly below the integer optimum on some instance.
C9_Witness == Returned /\ Distinguishable /\ numDiseases >= 2 /\ result < Den * BruteForce

\* The model of lines 54-93 with every variable kept binary.
BinaryModel == BuildModel(A, numTests, numDiseases, FALSE)

\* C10: in the binary model every feasible assignment has each auxiliary xor
\* variable at 0, and T extends to a feasible assignment exactly when the
\* tests it selects distinguish every disease pair.
C10_BinaryModelIsCover ==
    pc = "constructed" =>
        \A T \in [1..numTests -> {0, Den}] :
            /\ \A p \in BinaryModel.pairs :
                 \A or_var \in {0, Den}, xor_var \in [BinaryModel.xors[p] -> {0, Den}] :
                    PairConstraints(T, or_var, xor_var, p[1], p[2]) =>
                        \A k \in BinaryModel.xors[p] : xor_var[k] = 0
            /\ (\A p \in BinaryModel.pairs : PairSatisfiable(T, BinaryModel, p))
                   <=> Covers(Selected(T))

\* A built model with a test positive for both diseases of a pair, and a
\* selection that distinguishes every pair.
C10_Witness ==
    /\ pc = "constructed"
    /\ \E p \in BinaryModel.pairs : BinaryModel.xors[p] # {}
    /\ Distinguishable

====
